---- MODULE Spec2Model ----
(***************************************************************************)
(* A model of the todo service of todo-api (internal/service): the sorted  *)
(* index (binarySearchTodoByID, insertTodoSorted, the removal step of      *)
(* DeleteTodo), the persistence layer (loadTodos, saveTodos with their     *)
(* JSON encoding), the RWMutex guarding the backing file, the ID allocator *)
(* (getNextID) and the four service operations run by concurrent callers.  *)
(*                                                                         *)
(* Three specifications share the variables:                               *)
(*   Spec      concurrent callers of one TodoService, file absent at start *)
(*   SeqSpec   the same service with a single caller (sequential runs)     *)
(*   PureSpec  the pure functions applied to inputs drawn from bounded sets*)
(***************************************************************************)
EXTENDS Integers, Sequences, FiniteSets, Bags, TLC

(***************************************************************************)
(* Bounds of the model.                                                    *)
(***************************************************************************)
\* total number of service calls started in a concurrent run
MaxOps == 4
\* total number of service calls started in a sequential run
MaxSeqOps == 5
\* calls started in FairSpec
MaxFairOps == 3
\* update/delete are called with IDs 1..MaxArgID
MaxArgID == 2
\* PureSpec: input sequences have at most MaxLen records
MaxLen == 3
\* PureSpec: record IDs are 0..MaxID
MaxID == 3
\* components in the file parameter of a file-server request
MaxPathLen == 2

Procs == {"p1", "p2"}
NoProc == "none"

(***************************************************************************)
(* Records.  A Todo is [ID, Contents]; Contents is a string, modelled as a *)
(* sequence of characters.                                                 *)
(***************************************************************************)
Todo(id, contents) == [ID |-> id, Contents |-> contents]
NoTodo == [ID |-> -1, Contents |-> <<>>]

\* request contents the callers send: empty, whitespace only, and two texts
\* that need trimming, one of them with a character JSON escapes
ReqContents == {<<>>, <<" ">>, <<" ", "a">>, <<"<", " ">>}

\* contents of the records PureSpec draws
PureContents == {<<"a">>, <<"<", "a">>}

RECURSIVE TrimLeft(_)
TrimLeft(s) ==
  IF s # <<>> /\ Head(s) = " " THEN TrimLeft(Tail(s)) ELSE s

RECURSIVE TrimRight(_)
TrimRight(s) ==
  IF s # <<>> /\ s[Len(s)] = " " THEN TrimRight(SubSeq(s, 1, Len(s) - 1)) ELSE s

TrimSpace(s) == TrimRight(TrimLeft(s))

\* validateTodoRequest without the TrimSpace: only the empty string fails
validateNoTrim(contents) == contents # <<>>

\* validateTodoRequest: TRUE when the request is accepted
validateTodoRequest(contents) == TrimSpace(contents) # <<>>

(***************************************************************************)
(* Sorted index.  Go slices are 0-based: element i of the slice is         *)
(* todos[i + 1] here, and the operators return 0-based indices as the code *)
(* does (-1 for "not found").                                              *)
(***************************************************************************)
RECURSIVE BinarySearchLoop(_, _, _, _)
BinarySearchLoop(todos, targetID, left, right) ==
  IF left <= right
  THEN LET mid == left + ((right - left) \div 2)
           midID == todos[mid + 1].ID
       IN IF midID = targetID THEN mid
          ELSE IF midID < targetID
               THEN BinarySearchLoop(todos, targetID, mid + 1, right)
               ELSE BinarySearchLoop(todos, targetID, left, mid - 1)
  ELSE -1

RECURSIVE BinarySearchLoopStrict(_, _, _, _)
BinarySearchLoopStrict(todos, targetID, left, right) ==
  IF left < right
  THEN LET mid == left + ((right - left) \div 2)
           midID == todos[mid + 1].ID
       IN IF midID = targetID THEN mid
          ELSE IF midID < targetID
               THEN BinarySearchLoopStrict(todos, targetID, mid + 1, right)
               ELSE BinarySearchLoopStrict(todos, targetID, left, mid - 1)
  ELSE -1

\* the search with the loop condition left < right instead of left <= right
binarySearchOffByOne(todos, targetID) ==
  BinarySearchLoopStrict(todos, targetID, 0, Len(todos) - 1)

binarySearchTodoByID(todos, targetID) ==
  BinarySearchLoop(todos, targetID, 0, Len(todos) - 1)

\* the search loop of insertTodoSorted: the index the new record is put at
RECURSIVE InsertionLoop(_, _, _, _)
InsertionLoop(todos, id, left, right) ==
  IF left < right
  THEN LET mid == left + ((right - left) \div 2)
       IN IF todos[mid + 1].ID < id
          THEN InsertionLoop(todos, id, mid + 1, right)
          ELSE InsertionLoop(todos, id, left, mid)
  ELSE left

\* the position search started with right = len(todos) - 1
insertionPointShort(todos, id) ==
  IF Len(todos) = 0 THEN 0 ELSE InsertionLoop(todos, id, 0, Len(todos) - 1)

RECURSIVE InsertionLoopUpper(_, _, _, _)
InsertionLoopUpper(todos, id, left, right) ==
  IF left < right
  THEN LET mid == left + ((right - left) \div 2)
       IN IF todos[mid + 1].ID <= id
          THEN InsertionLoopUpper(todos, id, mid + 1, right)
          ELSE InsertionLoopUpper(todos, id, left, mid)
  ELSE left

\* the position search comparing with <= instead of <
insertionPointUpper(todos, id) ==
  IF Len(todos) = 0 THEN 0 ELSE InsertionLoopUpper(todos, id, 0, Len(todos))

insertionPoint(todos, id) ==
  IF Len(todos) = 0 THEN 0 ELSE InsertionLoop(todos, id, 0, Len(todos))

insertTodoSorted(todos, newTodo) ==
  IF Len(todos) = 0
  THEN Append(todos, newTodo)
  ELSE LET left == insertionPoint(todos, newTodo.ID)
       IN [i \in 1..(Len(todos) + 1) |->
             IF i <= left THEN todos[i]
             ELSE IF i = left + 1 THEN newTodo
             ELSE todos[i - 1]]

\* the removal that keeps todos[index:] instead of todos[index+1:]
removeAtKeep(todos, index) ==
  SubSeq(todos, 1, index) \o SubSeq(todos, index + 1, Len(todos))

\* the removal step of DeleteTodo: todos[:index] followed by todos[index+1:]
removeAt(todos, index) ==
  SubSeq(todos, 1, index) \o SubSeq(todos, index + 2, Len(todos))

(***************************************************************************)
(* ID allocator.                                                           *)
(***************************************************************************)
RECURSIVE MaxIDLoop(_, _, _)
MaxIDLoop(todos, i, maxID) ==
  IF i > Len(todos) THEN maxID
  ELSE MaxIDLoop(todos, i + 1, IF todos[i].ID > maxID THEN todos[i].ID ELSE maxID)

\* the allocator that returns the maximum itself
getNextIDNoIncrement(todos) == MaxIDLoop(todos, 1, 0)

\* the allocator that reuses the smallest ID not in use
getNextIDFirstFree(todos) ==
  CHOOSE n \in 1..(Len(todos) + 1) :
    /\ \A i \in 1..Len(todos) : todos[i].ID # n
    /\ \A m \in 1..(n - 1) : \E i \in 1..Len(todos) : todos[i].ID = m

getNextID(todos) == MaxIDLoop(todos, 1, 0) + 1

(***************************************************************************)
(* Persistence layer.  The backing file is absent, holds a JSON array of   *)
(* objects {"id": n, "contents": "..."}, or holds a payload that does not  *)
(* deserialize (truncated by os.Create, or partially written).  A JSON     *)
(* string is a sequence of tokens: json.Encoder writes '<' as the escape   *)
(* \u003c and the decoder reads the escape back.                           *)
(***************************************************************************)
EscapeChar(c) == IF c = "<" THEN "\\u003c" ELSE c
UnescapeToken(t) == IF t = "\\u003c" THEN "<" ELSE t

EncodeString(s) == [i \in 1..Len(s) |-> EscapeChar(s[i])]
DecodeString(j) == [i \in 1..Len(j) |-> UnescapeToken(j[i])]

\* a decoder that keeps the escape tokens as they are written
DecodeTodosRaw(data) ==
  [i \in 1..Len(data) |-> Todo(data[i].id, data[i].contents)]

\* encoder.Encode(todos): the array in stored order
EncodeTodos(todos) ==
  [i \in 1..Len(todos) |->
     [id |-> todos[i].ID, contents |-> EncodeString(todos[i].Contents)]]

\* decoder.Decode(&todos)
DecodeTodos(data) ==
  [i \in 1..Len(data) |-> Todo(data[i].id, DecodeString(data[i].contents))]

AbsentFile == [kind |-> "absent", data |-> <<>>]
PartialFile == [kind |-> "partial", data |-> <<>>]
JSONFile(data) == [kind |-> "json", data |-> data]

IsSortedByID(s) == \A i \in 1..(Len(s) - 1) : s[i].ID <= s[i + 1].ID
StrictlyAscending(s) == \A i \in 1..(Len(s) - 1) : s[i].ID < s[i + 1].ID

Bijections(n) ==
  {f \in [1..n -> 1..n] : \A i, j \in 1..n : f[i] = f[j] => i = j}

\* loadTodos without its sort.Slice: the records in file order
SortOmitted(s) == {s}

\* sort.Slice(todos, by ID): any ordering of the same records that is
\* ascending by ID (sort.Slice is not stable, so records of equal ID may
\* come out in any order)
SortByID(s) ==
  IF StrictlyAscending(s) THEN {s}
  ELSE {t \in {[i \in 1..Len(s) |-> s[f[i]]] : f \in Bijections(Len(s))} :
          IsSortedByID(t)}

(***************************************************************************)
(* The linear-scan versions: linearSearchTodoByID of performance_demo.go   *)
(* and the earlier UpdateTodo and DeleteTodo of the service, next to the   *)
(* binary-search versions as functions of the loaded slice.                *)
(***************************************************************************)
\* linearSearchTodoByID (performance_demo.go): the first index whose
\* record has the target ID, -1 when there is none
RECURSIVE LinearSearchLoop(_, _, _)
LinearSearchLoop(todos, targetID, i) ==
  IF i >= Len(todos) THEN -1
  ELSE IF todos[i + 1].ID = targetID THEN i
  ELSE LinearSearchLoop(todos, targetID, i + 1)
linearSearchTodoByID(todos, targetID) == LinearSearchLoop(todos, targetID, 0)

\* what a version of an operation returns and hands to saveTodos
Outcome(idx, err, todo, todos, nil) ==
  [idx |-> idx, err |-> err, todo |-> todo, todos |-> todos, nil |-> nil]

\* the linear-scan UpdateTodo after its loadTodos: the first record with the
\* ID is updated in place
RECURSIVE UpdateScan(_, _, _, _)
UpdateScan(todos, id, contents, i) ==
  IF i >= Len(todos)
  THEN Outcome(-1, "notfound", NoTodo, todos, FALSE)
  ELSE IF todos[i + 1].ID = id
  THEN LET updatedTodo == Todo(todos[i + 1].ID, TrimSpace(contents))
       IN Outcome(i, "none", updatedTodo,
                  [todos EXCEPT ![i + 1] = updatedTodo], FALSE)
  ELSE UpdateScan(todos, id, contents, i + 1)

\* the linear-scan DeleteTodo after its loadTodos: every record with another
\* ID is appended to newTodos, which stays nil when none is
RECURSIVE DeleteScan(_, _, _, _, _)
DeleteScan(todos, id, i, newTodos, found) ==
  IF i >= Len(todos)
  THEN IF found
       THEN Outcome(-1, "none", NoTodo, newTodos, newTodos = <<>>)
       ELSE Outcome(-1, "notfound", NoTodo, todos, FALSE)
  ELSE IF todos[i + 1].ID # id
  THEN DeleteScan(todos, id, i + 1, Append(newTodos, todos[i + 1]), found)
  ELSE DeleteScan(todos, id, i + 1, newTodos, TRUE)

\* the binary-search UpdateTodo and DeleteTodo after their loadTodos
BinaryVersion(kind, todos, id, contents) ==
  LET index == binarySearchTodoByID(todos, id)
  IN IF index = -1
     THEN Outcome(-1, "notfound", NoTodo, todos, FALSE)
     ELSE IF kind = "update"
     THEN LET updatedTodo == Todo(todos[index + 1].ID, TrimSpace(contents))
          IN Outcome(index, "none", updatedTodo,
                     [todos EXCEPT ![index + 1] = updatedTodo], FALSE)
     ELSE Outcome(index, "none", NoTodo, removeAt(todos, index), FALSE)

\* the sequence loadTodos decodes from what saveTodos wrote for an outcome:
\* json.Encoder writes a nil slice as null, which decodes to no records
PersistedBy(r) == IF r.nil THEN <<>> ELSE DecodeTodos(EncodeTodos(r.todos))

(***************************************************************************)
(* The demo file server (demo/server.go, demo/filereader.go).  A path is   *)
(* [abs, comps]: whether it starts with "/", and its components between    *)
(* the separators.  The empty string is the relative path of no component; *)
(* so is ".", which only filepath.Clean produces here.                     *)
(***************************************************************************)
Path(abs, comps) == [abs |-> abs, comps |-> comps]
NoPath == [abs |-> FALSE, comps |-> <<"none">>]

\* path components: the parent directory, the current directory, a plain
\* name, and a name with two dots in it
Comps == {"..", ".", "a", "a..b"}
Files == {Path(abs, c) : abs \in BOOLEAN,
                         c \in UNION {[1..n -> Comps] : n \in 0..MaxPathLen}}
\* working directories of the server process
Cwds == {<<"srv">>, <<"srv", "app">>}

\* filepath.Clean: drops "." components, removes a name together with the
\* ".." after it, drops ".." at the root, keeps leading ".." of a relative path
RECURSIVE CleanLoop(_, _, _)
CleanLoop(abs, comps, out) ==
  IF comps = <<>> THEN out
  ELSE LET c == Head(comps)
           next == IF c = "." THEN out
                   ELSE IF c # ".." THEN Append(out, c)
                   ELSE IF out # <<>> /\ out[Len(out)] # ".."
                        THEN SubSeq(out, 1, Len(out) - 1)
                   ELSE IF abs THEN out
                   ELSE Append(out, c)
       IN CleanLoop(abs, Tail(comps), next)
Clean(f) == Path(f.abs, CleanLoop(f.abs, f.comps, <<>>))

\* strings.Contains(filename, ".."): two dots in a row, in any component
ContainsDotDot(f) == \E i \in 1..Len(f.comps) : f.comps[i] \in {"..", "a..b"}

\* filepath.Abs: a relative path is joined to the working directory
Abs(f, cwd) == IF f.abs THEN Clean(f) ELSE Clean(Path(TRUE, cwd \o f.comps))

\* filepath.Dir(absPath) == "/"
DirIsRoot(f) == Len(f.comps) <= 1

\* how the file system answers the reader: the file is read, does not exist,
\* cannot be accessed or opened (permission denied), has no owner read bit,
\* or is a directory
FsOutcomes == {"ok", "missing", "denied", "unreadable", "directory"}

\* ReadFileAsString(path) as the handler sees it: the error message class
ReadFileAsString(outcome) ==
  CASE outcome = "ok" -> "none"
    [] outcome = "missing" -> "does not exist"
    [] outcome = "denied" -> "permission"
    [] outcome = "unreadable" -> "not readable"
    [] outcome = "directory" -> "other"

\* ReadFileByLines(path): os.Open's error only ("no such file or directory",
\* "permission denied", "is a directory" on the first read)
ReadFileByLines(outcome) ==
  CASE outcome = "ok" -> "none"
    [] outcome = "unreadable" -> "none"
    [] outcome = "denied" -> "permission"
    [] outcome = "missing" -> "other"
    [] outcome = "directory" -> "other"

(***************************************************************************)
(* State.                                                                  *)
(***************************************************************************)
VARIABLES
  file,      \* the backing file
  readers,   \* callers holding ts.mutex for reading (RLock)
  writer,    \* the caller holding ts.mutex for writing (Lock), or NoProc
  pc,        \* where each caller is in its call
  op,        \* the call each caller is running: kind, id, contents
  todos,     \* each caller's local slice, between loadTodos and saveTodos
  ret,       \* what each caller's last call returned
  callers,   \* the callers that run in this specification
  opsLeft,   \* calls that may still be started
  hist,      \* history (concurrent runs): the write calls that succeeded
  failed,    \* history (concurrent runs): some write call returned an error
  during,    \* history: the IDs other callers created and deleted during each call
  burned,    \* history (sequential runs): IDs deleted while not the maximum
  inS,       \* PureSpec: the input sequence
  inR,       \* PureSpec: the input record (its ID is the search target)
  inIdx,     \* PureSpec: the input index
  pureOp,    \* PureSpec: the function applied, "none" before
  outIdx,    \* PureSpec: the index returned
  outS,      \* PureSpec: the sequence returned
  outOld,    \* PureSpec: what the linear-scan version returned
  http,      \* DemoSpec: the last request the file server answered
  loop       \* LoopSpec: the search loop that is running, and its variables

pureVars == <<inS, inR, inIdx, pureOp, outIdx, outS, outOld, http, loop>>
vars == <<file, readers, writer, pc, op, todos, ret, callers, opsLeft,
          hist, failed, burned, during,
          inS, inR, inIdx, pureOp, outIdx, outS, outOld, http, loop>>

NoOp == [kind |-> "none", id |-> 0, contents |-> <<>>]
NoRet == [err |-> "pending", todo |-> NoTodo, list |-> <<>>]
Ret(err, todo, list) == [err |-> err, todo |-> todo, list |-> list]

WriteKinds == {"create", "update", "delete"}

\* the calls a caller can make
Calls ==
  {[kind |-> "get", id |-> 0, contents |-> <<>>]}
  \cup {[kind |-> "create", id |-> 0, contents |-> c] : c \in ReqContents}
  \cup {[kind |-> "update", id |-> i, contents |-> c] :
          i \in 1..MaxArgID, c \in ReqContents}
  \cup {[kind |-> "delete", id |-> i, contents |-> <<>>] : i \in 1..MaxArgID}

Concurrent == Cardinality(callers) > 1

\* nothing was created or deleted by another caller during the call
NoneDuring == [created |-> {}, deleted |-> {}]

InitService(cs, n) ==
  /\ file = AbsentFile
  /\ readers = {}
  /\ writer = NoProc
  /\ pc = [p \in Procs |-> "idle"]
  /\ op = [p \in Procs |-> NoOp]
  /\ todos = [p \in Procs |-> <<>>]
  /\ ret = [p \in Procs |-> NoRet]
  /\ callers = cs
  /\ opsLeft = n
  /\ hist = EmptyBag
  /\ failed = FALSE
  /\ burned = {}
  /\ during = [p \in Procs |-> NoneDuring]

\* no search loop is running
NoLoop == [fn |-> "none", left |-> 0, right |-> 0, mid |-> -1, done |-> FALSE]

\* the linear-scan version has returned nothing
NoOld == [idx |-> -1, err |-> "pending", todo |-> NoTodo, todos |-> <<>>,
          nil |-> FALSE]

\* the file server before its first request, started in directory cwd
NoRequest(cwd) ==
  [endpoint |-> "none", file |-> NoPath, cwd |-> cwd, status |-> 0,
   read |-> NoPath]

InitPureIdle ==
  /\ http = NoRequest(<<>>)
  /\ outOld = NoOld
  /\ loop = NoLoop
  /\ inS = <<>>
  /\ inR = NoTodo
  /\ inIdx = 0
  /\ pureOp = "none"
  /\ outIdx = -1
  /\ outS = <<>>

Init == InitService(Procs, MaxOps) /\ InitPureIdle

InitSeq == InitService({"p1"}, MaxSeqOps) /\ InitPureIdle

(***************************************************************************)
(* loadTodos and saveTodos on the file.                                    *)
(***************************************************************************)
LoadOk(s) == [ok |-> TRUE, todos |-> s]
LoadErr == [ok |-> FALSE, todos |-> <<>>]

\* loadTodos dropping the Decode error: an unreadable payload is an empty store
loadTodosIgnoreParse(f) ==
  IF f.kind \in {"absent", "partial"} THEN {LoadOk(<<>>)}
  ELSE {LoadOk(s) : s \in SortByID(DecodeTodos(f.data))}

\* loadTodos without the os.IsNotExist case: an absent file is an error
loadTodosNoAbsent(f) ==
  IF f.kind \in {"absent", "partial"} THEN {LoadErr}
  ELSE {LoadOk(s) : s \in SortByID(DecodeTodos(f.data))}

\* what loadTodos can return for a file it could open or found absent
loadTodos(f) ==
  IF f.kind = "absent" THEN {LoadOk(<<>>)}
  ELSE IF f.kind = "partial" THEN {LoadErr}
  ELSE {LoadOk(s) : s \in SortByID(DecodeTodos(f.data))}

\* what a successful saveTodos leaves in the file
saveTodos(s) == JSONFile(EncodeTodos(s))

(***************************************************************************)
(* The service operations.  A call is cut at its suspension points: the    *)
(* two lock acquisitions and the file I/O made under each lock.  The code  *)
(* between loadTodos returning and saveTodos asking for the lock touches   *)
(* only the caller's own slice and is part of the load step.               *)
(*   pc: idle -> load -> loading -> save -> saving -> idle                 *)
(***************************************************************************)
\* the call returns r; r.err is "none" or the cause of the error returned:
\* "validation", "notfound", "open" and "parse" (loadTodos), "save"
Return(p, r) ==
  /\ pc' = [pc EXCEPT ![p] = "idle"]
  /\ ret' = [ret EXCEPT ![p] = r]
  /\ todos' = [todos EXCEPT ![p] = <<>>]
  /\ failed' = (failed \/ (Concurrent /\ op[p].kind \in WriteKinds))
  /\ during' = [during EXCEPT ![p] = NoneDuring]

Start(p) ==
  /\ p \in callers
  /\ pc[p] = "idle"
  /\ opsLeft > 0
  /\ opsLeft' = opsLeft - 1

\* CreateTodo/UpdateTodo entered with contents validateTodoRequest rejects
CallInvalid(p) ==
  /\ Start(p)
  /\ \E c \in Calls :
       /\ c.kind \in {"create", "update"}
       /\ ~validateTodoRequest(c.contents)
       /\ op' = [op EXCEPT ![p] = c]
  /\ pc' = [pc EXCEPT ![p] = "idle"]
  /\ ret' = [ret EXCEPT ![p] = Ret("validation", NoTodo, <<>>)]
  /\ failed' = (failed \/ Concurrent)
  /\ UNCHANGED <<file, readers, writer, todos, callers, hist, burned, during,
                 pureVars>>

\* a call entered that goes on to loadTodos: GetAllTodos, DeleteTodo, and
\* CreateTodo/UpdateTodo with accepted contents
Call(p) ==
  /\ Start(p)
  /\ \E c \in Calls :
       /\ c.kind \in {"create", "update"} => validateTodoRequest(c.contents)
       /\ op' = [op EXCEPT ![p] = c]
  /\ pc' = [pc EXCEPT ![p] = "load"]
  /\ ret' = [ret EXCEPT ![p] = NoRet]
  /\ UNCHANGED <<file, readers, writer, todos, callers, hist, failed, burned, during,
                 pureVars>>

\* loadTodos: ts.mutex.RLock().  A reader gets the lock whenever no writer
\* holds it; sync.RWMutex also holds new readers back while a writer waits,
\* which only removes interleavings from the ones allowed here.
LoadLock(p) ==
  /\ pc[p] = "load"
  /\ writer = NoProc
  /\ readers' = readers \cup {p}
  /\ pc' = [pc EXCEPT ![p] = "loading"]
  /\ UNCHANGED <<file, writer, op, todos, ret, callers, opsLeft, hist, failed,
                 burned, during,
                 pureVars>>

\* loadTodos without its RUnlock: the caller keeps the read lock
LoadingKeepLock(p, kind) ==
  /\ pc[p] = "loading"
  /\ op[p].kind = kind
  /\ UNCHANGED <<file, readers, writer, op, callers, opsLeft, hist, burned,
                 pureVars>>

\* loadTodos under the read lock, ending with RUnlock
Loading(p, kind) ==
  /\ pc[p] = "loading"
  /\ op[p].kind = kind
  /\ readers' = readers \ {p}
  /\ UNCHANGED <<file, writer, op, callers, opsLeft, hist, burned,
                 pureVars>>

\* the call goes on to saveTodos with the slice s, to return todo
ToSave(p, s, todo) ==
  /\ todos' = [todos EXCEPT ![p] = s]
  /\ ret' = [ret EXCEPT ![p] = Ret("pending", todo, <<>>)]
  /\ pc' = [pc EXCEPT ![p] = "save"]
  /\ UNCHANGED <<failed, during>>

\* GetAllTodos writing the sorted slice it loaded back to the file
LoadGetResave(p) ==
  /\ pc[p] = "loading"
  /\ op[p].kind = "get"
  /\ readers' = readers \ {p}
  /\ \E r \in loadTodos(file) :
       /\ r.ok
       /\ file' = saveTodos(r.todos)
       /\ Return(p, Ret("none", NoTodo, r.todos))
  /\ UNCHANGED <<writer, op, callers, opsLeft, hist, burned, pureVars>>

\* GetAllTodos: returns what loadTodos returns
LoadGet(p) ==
  /\ Loading(p, "get")
  /\ \E r \in loadTodos(file) :
       /\ r.ok
       /\ Return(p, Ret("none", NoTodo, r.todos))

\* CreateTodo storing req.Contents as received, validated but not trimmed
LoadCreateUntrimmed(p) ==
  /\ Loading(p, "create")
  /\ \E r \in loadTodos(file) :
       /\ r.ok
       /\ LET newTodo == Todo(getNextID(r.todos), op[p].contents)
          IN ToSave(p, insertTodoSorted(r.todos, newTodo), newTodo)

\* CreateTodo: loadTodos, getNextID, insertTodoSorted
LoadCreate(p) ==
  /\ Loading(p, "create")
  /\ \E r \in loadTodos(file) :
       /\ r.ok
       /\ LET newTodo == Todo(getNextID(r.todos), TrimSpace(op[p].contents))
          IN ToSave(p, insertTodoSorted(r.todos, newTodo), newTodo)

\* UpdateTodo: loadTodos, binarySearchTodoByID, the update in place
LoadUpdate(p) ==
  /\ Loading(p, "update")
  /\ \E r \in loadTodos(file) :
       /\ r.ok
       /\ LET index == binarySearchTodoByID(r.todos, op[p].id)
          IN IF index = -1
             THEN Return(p, Ret("notfound", NoTodo, <<>>))
             ELSE LET updatedTodo == Todo(r.todos[index + 1].ID,
                                          TrimSpace(op[p].contents))
                  IN ToSave(p, [r.todos EXCEPT ![index + 1] = updatedTodo],
                            updatedTodo)

\* DeleteTodo without the "index == -1" return: saves what it loaded
LoadDeleteAlwaysSave(p) ==
  /\ Loading(p, "delete")
  /\ \E r \in loadTodos(file) :
       /\ r.ok
       /\ LET index == binarySearchTodoByID(r.todos, op[p].id)
          IN ToSave(p, IF index = -1 THEN r.todos ELSE removeAt(r.todos, index),
                    NoTodo)

\* DeleteTodo: loadTodos, binarySearchTodoByID, the removal
LoadDelete(p) ==
  /\ Loading(p, "delete")
  /\ \E r \in loadTodos(file) :
       /\ r.ok
       /\ LET index == binarySearchTodoByID(r.todos, op[p].id)
          IN IF index = -1
             THEN Return(p, Ret("notfound", NoTodo, <<>>))
             ELSE ToSave(p, removeAt(r.todos, index), NoTodo)

\* loadTodos: the payload does not deserialize; every call returns the error
LoadParseError(p) ==
  /\ Loading(p, op[p].kind)
  /\ \E r \in loadTodos(file) : ~r.ok
  /\ Return(p, Ret("parse", NoTodo, <<>>))

\* loadTodos: os.Open fails with an error other than "not exist"
LoadIOError(p) ==
  /\ Loading(p, op[p].kind)
  /\ Return(p, Ret("open", NoTodo, <<>>))

\* saveTodos taking the lock without waiting for the readers to leave
SaveLockNoWait(p) ==
  /\ pc[p] = "save"
  /\ writer = NoProc
  /\ writer' = p
  /\ pc' = [pc EXCEPT ![p] = "saving"]
  /\ UNCHANGED <<file, readers, op, todos, ret, callers, opsLeft, hist, failed,
                 burned, during,
                 pureVars>>

\* saveTodos: ts.mutex.Lock()
SaveLock(p) ==
  /\ pc[p] = "save"
  /\ writer = NoProc
  /\ readers = {}
  /\ writer' = p
  /\ pc' = [pc EXCEPT ![p] = "saving"]
  /\ UNCHANGED <<file, readers, op, todos, ret, callers, opsLeft, hist, failed,
                 burned, during,
                 pureVars>>

\* saveTodos under the write lock, ending with Unlock
Saving(p) ==
  /\ pc[p] = "saving"
  /\ writer' = NoProc
  /\ UNCHANGED <<readers, op, callers, opsLeft,
                 pureVars>>

\* saveTodos: os.Create, encoder.Encode; the call returns its record
SaveWrite(p) ==
  /\ Saving(p)
  /\ file' = saveTodos(todos[p])
  /\ pc' = [pc EXCEPT ![p] = "idle"]
  /\ ret' = [ret EXCEPT ![p] = Ret("none", ret[p].todo, <<>>)]
  /\ todos' = [todos EXCEPT ![p] = <<>>]
  /\ hist' = IF Concurrent
             THEN hist (+) SetToBag({[kind |-> op[p].kind, id |-> op[p].id,
                                      contents |-> op[p].contents]})
             ELSE hist
  /\ burned' = IF /\ ~Concurrent
                  /\ op[p].kind = "delete"
                  /\ \E i \in 1..Len(todos[p]) : todos[p][i].ID > op[p].id
               THEN burned \cup {op[p].id}
               ELSE burned
  /\ during' = [q \in Procs |->
                  IF q = p \/ pc[q] = "idle" THEN NoneDuring
                  ELSE IF op[p].kind = "create"
                  THEN [created |-> during[q].created \cup {ret[p].todo.ID},
                        deleted |-> during[q].deleted \ {ret[p].todo.ID}]
                  ELSE IF op[p].kind = "delete"
                  THEN [created |-> during[q].created,
                        deleted |-> during[q].deleted \cup {op[p].id}]
                  ELSE during[q]]
  /\ UNCHANGED failed

\* the error of saveTodos dropped by the operation: os.Create fails and the
\* call returns its record as if the save had succeeded
SaveCreateErrorIgnored(p) ==
  /\ Saving(p)
  /\ pc' = [pc EXCEPT ![p] = "idle"]
  /\ ret' = [ret EXCEPT ![p] = Ret("none", ret[p].todo, <<>>)]
  /\ todos' = [todos EXCEPT ![p] = <<>>]
  /\ during' = [during EXCEPT ![p] = NoneDuring]
  /\ UNCHANGED <<file, hist, failed, burned>>

\* saveTodos: os.Create fails and leaves the file as it was
SaveCreateError(p) ==
  /\ Saving(p)
  /\ Return(p, Ret("save", NoTodo, <<>>))
  /\ UNCHANGED <<file, hist, burned>>

\* saveTodos: os.Create has truncated the file and the write fails
SaveEncodeError(p) ==
  /\ Saving(p)
  /\ file' = PartialFile
  /\ Return(p, Ret("save", NoTodo, <<>>))
  /\ UNCHANGED <<hist, burned>>

Next ==
  \E p \in Procs :
    \/ CallInvalid(p)
    \/ Call(p)
    \/ LoadLock(p)
    \/ LoadGet(p)
    \/ LoadCreate(p)
    \/ LoadUpdate(p)
    \/ LoadDelete(p)
    \/ LoadParseError(p)
    \/ LoadIOError(p)
    \/ SaveLock(p)
    \/ SaveWrite(p)
    \/ SaveCreateError(p)
    \/ SaveEncodeError(p)

Spec == Init /\ [][Next]_vars

SeqSpec == InitSeq /\ [][Next]_vars

\* the steps of caller p inside a call: the scheduler runs every goroutine
\* that can run, a lock that is free is granted, and file I/O terminates
Proceed(p) ==
  \/ LoadLock(p)
  \/ LoadGet(p)
  \/ LoadCreate(p)
  \/ LoadUpdate(p)
  \/ LoadDelete(p)
  \/ LoadParseError(p)
  \/ LoadIOError(p)
  \/ SaveLock(p)
  \/ SaveWrite(p)
  \/ SaveCreateError(p)
  \/ SaveEncodeError(p)

InitFair == InitService(Procs, MaxFairOps) /\ InitPureIdle

FairSpec ==
  InitFair /\ [][Next]_vars /\ \A p \in Procs : WF_vars(Proceed(p))

(***************************************************************************)
(* PureSpec: the sorted index and the persistence round trip applied to    *)
(* inputs drawn from bounded sets.  The input sequences are all sequences  *)
(* of at most MaxLen records, ascending or not, with or without duplicate  *)
(* IDs; the properties state the precondition they need.                   *)
(***************************************************************************)
PureRecords == {Todo(i, c) : i \in 0..MaxID, c \in PureContents}
PureSeqs == UNION {[1..n -> PureRecords] : n \in 0..MaxLen}

InitPure ==
  /\ InitService({}, 0)
  /\ http = NoRequest(<<>>)
  /\ outOld = NoOld
  /\ loop = NoLoop
  /\ inS \in PureSeqs
  /\ inR \in PureRecords
  /\ inIdx = 0
  /\ pureOp = "none"
  /\ outIdx = -1
  /\ outS = <<>>

Apply(name) ==
  /\ pureOp = "none"
  /\ pureOp' = name
  /\ UNCHANGED <<inS, inR, readers, writer, pc, op, todos, ret, callers,
                 opsLeft, hist, failed, burned, during,
                 http, loop>>

\* binarySearchTodoByID(inS, inR.ID)
ApplySearch ==
  /\ Apply("search")
  /\ outIdx' = binarySearchTodoByID(inS, inR.ID)
  /\ UNCHANGED <<inIdx, outS, outOld, file>>

\* insertTodoSorted(inS, inR); outIdx is the position the record is put at
ApplyInsert ==
  /\ Apply("insert")
  /\ outS' = insertTodoSorted(inS, inR)
  /\ outIdx' = insertionPoint(inS, inR.ID)
  /\ UNCHANGED <<inIdx, outOld, file>>

\* the removal step of DeleteTodo at a valid index, then the search for the
\* removed ID in the result
ApplyRemove ==
  /\ Apply("remove")
  /\ \E i \in 0..(Len(inS) - 1) :
       /\ inIdx' = i
       /\ outS' = removeAt(inS, i)
       /\ outIdx' = binarySearchTodoByID(removeAt(inS, i), inS[i + 1].ID)
  /\ UNCHANGED <<outOld, file>>

\* saveTodos(inS) succeeds
ApplySave ==
  /\ Apply("save")
  /\ file' = saveTodos(inS)
  /\ UNCHANGED <<inIdx, outIdx, outS, outOld>>

\* loadTodos right after the save
ApplyLoad ==
  /\ pureOp = "save"
  /\ pureOp' = "load"
  /\ \E r \in loadTodos(file) :
       /\ r.ok
       /\ outS' = r.todos
  /\ UNCHANGED <<inS, inR, inIdx, outIdx, file, readers, writer, pc, op, todos,
                 ret, callers, opsLeft, hist, failed, burned,
                 during, outOld, http, loop>>

\* UpdateTodo/DeleteTodo after their loadTodos: the search for inR.ID in
\* the loaded slice
ApplyFind ==
  /\ pureOp = "load"
  /\ pureOp' = "find"
  /\ outIdx' = binarySearchTodoByID(outS, inR.ID)
  /\ UNCHANGED <<inS, inR, inIdx, outS, file, readers, writer, pc, op, todos,
                 ret, callers, opsLeft, hist, failed, burned,
                 during, outOld, http, loop>>

\* CreateTodo after its loadTodos: getNextID, then insertTodoSorted of the
\* new record into the loaded slice; outIdx is the position it is put at
ApplyCreate ==
  /\ pureOp = "load"
  /\ pureOp' = "create"
  /\ LET newTodo == Todo(getNextID(outS), inR.Contents)
     IN /\ outS' = insertTodoSorted(outS, newTodo)
        /\ outIdx' = insertionPoint(outS, newTodo.ID)
  /\ UNCHANGED <<inS, inR, inIdx, file, readers, writer, pc, op, todos,
                 ret, callers, opsLeft, hist, failed, burned, during, outOld,
                 http, loop>>

\* both searches for inR.ID in inS
ApplyBothSearches ==
  /\ Apply("searches")
  /\ outIdx' = binarySearchTodoByID(inS, inR.ID)
  /\ outOld' = Outcome(linearSearchTodoByID(inS, inR.ID), "none", NoTodo,
                       <<>>, FALSE)
  /\ UNCHANGED <<inIdx, outS, file>>

\* both versions of UpdateTodo(inR.ID, inR.Contents) on the loaded slice inS
\* (kind "update"), and of DeleteTodo(inR.ID) (kind "delete"): outIdx and
\* outS are the index found and the slice saved by the binary-search version
ApplyBothVersions(kind) ==
  /\ Apply(kind)
  /\ LET new == BinaryVersion(kind, inS, inR.ID, inR.Contents)
     IN /\ outIdx' = new.idx
        /\ outS' = new.todos
  /\ outOld' = IF kind = "update"
               THEN UpdateScan(inS, inR.ID, inR.Contents, 0)
               ELSE DeleteScan(inS, inR.ID, 0, <<>>, FALSE)
  /\ UNCHANGED <<inIdx, file>>

ApplyBothUpdates ==
  /\ pureOp = "none"
  /\ ApplyBothVersions("update")

ApplyBothDeletes ==
  /\ pureOp = "none"
  /\ ApplyBothVersions("delete")

NextPure ==
  \/ ApplySearch
  \/ ApplyInsert
  \/ ApplyRemove
  \/ ApplySave
  \/ ApplyLoad
  \/ ApplyFind
  \/ ApplyCreate
  \/ ApplyBothSearches
  \/ ApplyBothUpdates
  \/ ApplyBothDeletes

PureSpec == InitPure /\ [][NextPure]_vars

(***************************************************************************)
(* DemoSpec: the file server answering GET requests on /read, /readlines   *)
(* and /saferead, one request per step, for every file parameter of up to  *)
(* MaxPathLen components and every answer of the file system.              *)
(***************************************************************************)
todoVars == <<file, readers, writer, pc, op, todos, ret, callers, opsLeft,
              hist, failed, burned, during, inS, inR, inIdx, pureOp, outIdx, outS,
              outOld>>

InitDemo ==
  /\ InitService({}, 0)
  /\ inS = <<>> /\ inR = NoTodo /\ inIdx = 0
  /\ pureOp = "none" /\ outIdx = -1 /\ outS = <<>> /\ outOld = NoOld
  /\ loop = NoLoop
  /\ \E cwd \in Cwds : http = NoRequest(cwd)

\* the answer to a request: the status, and the path the reader was called
\* on (NoPath: the reader was not called)
Answer(status, read) == [status |-> status, read |-> read]

\* the request on the endpoint for file f is answered with r
Respond(endpoint, f, r) ==
  [endpoint |-> endpoint, file |-> f, cwd |-> http.cwd,
   status |-> r.status, read |-> r.read]

\* the status written for an error message of the reader, by the substrings
\* the handler looks for (forbidden: the ones it answers 403 for)
ErrorStatus(msg, forbidden) ==
  IF msg = "none" THEN 200
  ELSE IF msg = "does not exist" THEN 404
  ELSE IF msg \in forbidden THEN 403
  ELSE 500

\* a handler rejecting the cleaned path when it contains "..", else reading
\* it with the given reader result
CheckedRead(f, msg, forbidden) ==
  IF f = Path(FALSE, <<>>) THEN Answer(200, NoPath)
  ELSE IF ContainsDotDot(Clean(f)) THEN Answer(400, NoPath)
  ELSE Answer(ErrorStatus(msg, forbidden), Clean(f))

\* SafeReadFile: filepath.Clean, filepath.Abs, the check of the parent
\* directory, then ReadFileAsString(absPath)
SafeReadFile(f, cwd, msg) ==
  LET absPath == Abs(Clean(f), cwd)
  IN IF DirIsRoot(absPath)
     THEN Answer(403, NoPath)
     ELSE Answer(ErrorStatus(msg, {"permission", "not allowed"}), absPath)

readFileHandler ==
  \E f \in Files, o \in FsOutcomes :
    /\ http' = Respond("/read", f,
                       CheckedRead(f, ReadFileAsString(o),
                                   {"not readable", "permission"}))
    /\ UNCHANGED <<todoVars, loop>>

readFileLinesHandler ==
  \E f \in Files, o \in FsOutcomes :
    /\ http' = Respond("/readlines", f,
                       CheckedRead(f, ReadFileByLines(o), {"permission"}))
    /\ UNCHANGED <<todoVars, loop>>

safeReadHandler ==
  \E f \in Files, o \in FsOutcomes :
    /\ http' = Respond("/saferead", f,
                       IF f = Path(FALSE, <<>>)
                       THEN Answer(200, NoPath)
                       ELSE SafeReadFile(f, http.cwd, ReadFileAsString(o)))
    /\ UNCHANGED <<todoVars, loop>>

NextDemo ==
  \/ readFileHandler
  \/ readFileLinesHandler
  \/ safeReadHandler

DemoSpec == InitDemo /\ [][NextDemo]_vars

(***************************************************************************)
(* LoopSpec: the loops of binarySearchTodoByID(inS, inR.ID) and of         *)
(* insertTodoSorted(inS, inR) run one iteration per step, on every         *)
(* sequence of up to MaxLen records, sorted or not.  loop.mid is the       *)
(* 0-based index the last iteration read.                                  *)
(***************************************************************************)
LoopRecords == {Todo(i, <<"a">>) : i \in 0..MaxID}

InitLoop ==
  /\ InitService({}, 0)
  /\ inS \in UNION {[1..n -> LoopRecords] : n \in 0..MaxLen}
  /\ inR \in LoopRecords
  /\ inIdx = 0 /\ pureOp = "none" /\ outIdx = -1 /\ outS = <<>>
  /\ outOld = NoOld
  /\ http = NoRequest(<<>>)
  /\ loop = NoLoop

Running(fn, left, right, mid) ==
  [fn |-> fn, left |-> left, right |-> right, mid |-> mid, done |-> FALSE]
Returned(l) == [l EXCEPT !.done = TRUE]

\* left, right := 0, len(todos)-1
SearchStart ==
  /\ loop.fn = "none"
  /\ loop' = Running("search", 0, Len(inS) - 1, -1)
  /\ UNCHANGED <<todoVars, http>>

\* an iteration that moves left to mid, not past it
SearchIterationNoAdvance ==
  /\ loop.fn = "search" /\ ~loop.done
  /\ loop.left <= loop.right
  /\ LET mid == loop.left + ((loop.right - loop.left) \div 2)
         midID == inS[mid + 1].ID
     IN loop' = IF midID = inR.ID
                THEN Returned(Running("search", loop.left, loop.right, mid))
                ELSE IF midID < inR.ID
                THEN Running("search", mid, loop.right, mid)
                ELSE Running("search", loop.left, mid - 1, mid)
  /\ UNCHANGED <<todoVars, http>>

\* one iteration of "for left <= right"
SearchIteration ==
  /\ loop.fn = "search" /\ ~loop.done
  /\ loop.left <= loop.right
  /\ LET mid == loop.left + ((loop.right - loop.left) \div 2)
         midID == inS[mid + 1].ID
     IN loop' = IF midID = inR.ID
                THEN Returned(Running("search", loop.left, loop.right, mid))
                ELSE IF midID < inR.ID
                THEN Running("search", mid + 1, loop.right, mid)
                ELSE Running("search", loop.left, mid - 1, mid)
  /\ UNCHANGED <<todoVars, http>>

\* the loop condition fails: return -1
SearchExit ==
  /\ loop.fn = "search" /\ ~loop.done
  /\ loop.left > loop.right
  /\ loop' = Returned(loop)
  /\ UNCHANGED <<todoVars, http>>

\* insertTodoSorted: the empty slice is appended to without a search, else
\* left, right := 0, len(todos)
InsertStart ==
  /\ loop.fn = "none"
  /\ loop' = IF Len(inS) = 0
             THEN Returned(Running("insert", 0, 0, -1))
             ELSE Running("insert", 0, Len(inS), -1)
  /\ UNCHANGED <<todoVars, http>>

\* one iteration of "for left < right"
InsertIteration ==
  /\ loop.fn = "insert" /\ ~loop.done
  /\ loop.left < loop.right
  /\ LET mid == loop.left + ((loop.right - loop.left) \div 2)
     IN loop' = IF inS[mid + 1].ID < inR.ID
                THEN Running("insert", mid + 1, loop.right, mid)
                ELSE Running("insert", loop.left, mid, mid)
  /\ UNCHANGED <<todoVars, http>>

\* the loop condition fails: the record is inserted at left
InsertExit ==
  /\ loop.fn = "insert" /\ ~loop.done
  /\ loop.left >= loop.right
  /\ loop' = Returned(loop)
  /\ UNCHANGED <<todoVars, http>>

NextLoop ==
  \/ SearchStart
  \/ SearchIteration
  \/ SearchExit
  \/ InsertStart
  \/ InsertIteration
  \/ InsertExit

\* a loop that was entered keeps being run
LoopSpec == InitLoop /\ [][NextLoop]_vars /\ WF_vars(NextLoop)

(***************************************************************************)
(* Properties.                                                             *)
(***************************************************************************)
IDsOf(s) == {s[i].ID : i \in 1..Len(s)}
MaxOfIDs(s) == CHOOSE m \in IDsOf(s) \cup {0} : \A n \in IDsOf(s) \cup {0} : n <= m
IsWrite(p) == op[p].kind \in WriteKinds
\* the persisted sequence, in stored order (empty for an absent file)
Persisted == DecodeTodos(file.data)

\* p has performed its load and not yet finished its save
Loaded(p) == IsWrite(p) /\ pc[p] \in {"save", "saving"}
\* q's save takes effect on the file in this step
SaveTakesEffect(q) ==
  pc[q] = "saving" /\ pc'[q] = "idle" /\ (ret'[q].err = "none" \/ file' # file)
\* write call q performs its load in this step
WriteLoads(q) == IsWrite(q) /\ pc[q] = "loading" /\ pc'[q] # "loading"

\* C1: between a write call's load and its own save no other call's save
\* takes effect on the backing file and no other write call performs its
\* load (load, mutation and save are one exclusive critical section).
C1_ExclusiveCriticalSection ==
  [][\A p \in Procs : Loaded(p) =>
       \A q \in Procs \ {p} : ~SaveTakesEffect(q) /\ ~WriteLoads(q)]_vars

\* the sequential effect of a successful write call on a store
ApplySerial(o, s) ==
  IF o.kind = "create"
  THEN insertTodoSorted(s, Todo(getNextID(s), TrimSpace(o.contents)))
  ELSE LET index == binarySearchTodoByID(s, o.id)
       IN IF o.kind = "update"
          THEN [s EXCEPT ![index + 1] = Todo(s[index + 1].ID, TrimSpace(o.contents))]
          ELSE removeAt(s, index)

SucceedsOn(o, s) == o.kind = "create" \/ binarySearchTodoByID(s, o.id) # -1

\* the stores reached by applying the calls of bag b one at a time, each
\* succeeding, in some total order, starting from store s
RECURSIVE SerialResults(_, _)
SerialResults(s, b) ==
  IF BagToSet(b) = {} THEN {s}
  ELSE UNION {SerialResults(ApplySerial(o, s), b (-) SetToBag({o})) :
                o \in {x \in BagToSet(b) : SucceedsOn(x, s)}}

Quiescent == \A p \in Procs : pc[p] = "idle"

\* C2: no lost update: when concurrently running write calls have all
\* returned success, the persisted sequence is the result of applying them
\* one at a time in some total order.
C2_NoLostUpdate ==
  (Concurrent /\ Quiescent /\ ~failed) =>
     /\ file.kind # "partial"
     /\ Persisted \in SerialResults(<<>>, hist)

\* C3: from an absent file, under any interleaving, every sequence saveTodos
\* writes and every sequence loadTodos returns is strictly ascending by ID.
C3_AlwaysStrictlyAscending ==
  /\ file.kind = "json" => StrictlyAscending(Persisted)
  /\ \A r \in loadTodos(file) : StrictlyAscending(r.todos)
  /\ \A p \in Procs : StrictlyAscending(todos[p]) /\ StrictlyAscending(ret[p].list)

\* two callers hold slices to save while the file holds two records
C3_Witness ==
  /\ Len(file.data) >= 2
  /\ \E p, q \in Procs : p # q /\ pc[p] = "saving" /\ pc[q] = "save"
                         /\ Len(todos[p]) >= 2 /\ Len(todos[q]) >= 1

\* C4: on a strictly ascending sequence binarySearchTodoByID returns an index
\* holding the target ID when the ID occurs, and -1 exactly when it does not.
C4_BinarySearchFinds ==
  (pureOp = "search" /\ StrictlyAscending(inS)) =>
     IF inR.ID \in IDsOf(inS)
     THEN outIdx \in 0..(Len(inS) - 1) /\ inS[outIdx + 1].ID = inR.ID
     ELSE outIdx = -1

\* the last of three records is found
C4_Witness ==
  pureOp = "search" /\ StrictlyAscending(inS) /\ Len(inS) = 3 /\ outIdx = 2

\* C5: inserting a record with a new ID into a strictly ascending sequence
\* gives a strictly ascending sequence one longer that holds the record and
\* every element of the input exactly once.
C5_InsertKeepsOrder ==
  (pureOp = "insert" /\ StrictlyAscending(inS) /\ inR.ID \notin IDsOf(inS)) =>
     /\ Len(outS) = Len(inS) + 1
     /\ StrictlyAscending(outS)
     /\ \A x \in {inS[i] : i \in 1..Len(inS)} \cup {inR} :
          Cardinality({j \in 1..Len(outS) : outS[j] = x}) = 1

\* a record is inserted after the last of two
C5_Witness ==
  /\ pureOp = "insert" /\ StrictlyAscending(inS) /\ inR.ID \notin IDsOf(inS)
  /\ Len(inS) = 2 /\ outS[3] = inR

\* the leftmost 0-based index whose record has an ID >= id, Len(s) if none
LeftmostAtLeast(s, id) ==
  IF \E i \in 1..Len(s) : s[i].ID >= id
  THEN (CHOOSE i \in 1..Len(s) :
          s[i].ID >= id /\ \A j \in 1..(i - 1) : s[j].ID < id) - 1
  ELSE Len(s)

\* C6: on a sequence ascending by ID, insertTodoSorted puts the record at the
\* leftmost index whose record has an ID >= the record's (at the end when
\* there is none, at 0 in an empty sequence); the records before keep their
\* positions and the records from there on move right by one.
C6_InsertAtLeftmost ==
  (pureOp = "insert" /\ IsSortedByID(inS)) =>
     LET at == LeftmostAtLeast(inS, inR.ID)
     IN /\ outIdx = at
        /\ Len(outS) = Len(inS) + 1
        /\ outS[at + 1] = inR
        /\ \A j \in 1..at : outS[j] = inS[j]
        /\ \A j \in (at + 1)..Len(inS) : outS[j + 1] = inS[j]

\* the record goes before a record of the same ID in the middle
C6_Witness ==
  /\ pureOp = "insert" /\ IsSortedByID(inS) /\ Len(inS) = 3
  /\ inS[2].ID = inR.ID /\ outIdx = 1 /\ outS[2] = inR /\ outS[3] = inS[2]

\* C7: removing the record at a valid index of a strictly ascending sequence
\* leaves a strictly ascending sequence in which binarySearchTodoByID does
\* not find the removed ID.
C7_RemoveThenAbsent ==
  (pureOp = "remove" /\ StrictlyAscending(inS)) =>
     /\ StrictlyAscending(outS)
     /\ outIdx = -1

\* the middle one of three records is removed
C7_Witness ==
  /\ pureOp = "remove" /\ StrictlyAscending(inS) /\ Len(inS) = 3
  /\ inIdx = 1 /\ Len(outS) = 2

\* C8: loadTodos right after a successful saveTodos(S) of a strictly
\* ascending S returns S: the same records in the same order.
C8_RoundTrip ==
  (pureOp = "load" /\ StrictlyAscending(inS)) => outS = inS

\* two records, one with contents that JSON escapes, were saved and loaded
C8_Witness ==
  /\ pureOp = "load" /\ StrictlyAscending(inS) /\ Len(inS) = 2
  /\ inS[1].Contents = <<"<", "a">>
  /\ file.kind = "json" /\ file.data[1].contents # inS[1].Contents

\* caller p's CreateTodo returns success in this step
CreateReturns(p) ==
  /\ op[p].kind = "create" /\ pc[p] = "saving"
  /\ pc'[p] = "idle" /\ ret'[p].err = "none"

\* C9: in sequential runs a successful CreateTodo returns the ID 1 + the
\* maximum ID in the store at that moment (1 for an empty store).
C9_CreateReturnsMaxPlusOne ==
  [][\A p \in Procs : CreateReturns(p) =>
       ret'[p].todo.ID = 1 + MaxOfIDs(Persisted)]_vars

\* created 1 and 2, deleted 1, and the next create returned 3
C9_Witness ==
  /\ ~Concurrent /\ pc["p1"] = "idle" /\ op["p1"].kind = "create"
  /\ ret["p1"].err = "none" /\ ret["p1"].todo.ID = 3
  /\ [i \in 1..Len(Persisted) |-> Persisted[i].ID] = <<2, 3>>

\* caller p's last call was a CreateTodo that returned success
Created(p) == pc[p] = "idle" /\ op[p].kind = "create" /\ ret[p].err = "none"

\* C10 as stated: in sequential runs an ID deleted while it was not the
\* maximum is never assigned again by a later CreateTodo.
C10_BurnedNeverReassigned ==
  \A p \in Procs : Created(p) => ret[p].todo.ID \notin burned

\* C10 as amended: in sequential runs an ID deleted while it was not the
\* maximum is not assigned again while the store holds a record with that ID
\* or a greater one; CreateTodo assigns it again only once every record with
\* a greater ID has been deleted too.
C10_BurnedNotReassignedBelowMax ==
  [][\A p \in Procs : (CreateReturns(p) /\ ret'[p].todo.ID \in burned) =>
       \A i \in 1..Len(Persisted) : Persisted[i].ID < ret'[p].todo.ID]_vars

\* an ID deleted while not the maximum has been assigned again
C10_Witness ==
  \E p \in Procs : Created(p) /\ ret[p].todo.ID \in burned

\* caller p takes a step of its call
Steps(p) == pc'[p] # pc[p]
\* caller p's call of the given kind returns success in this step
Succeeds(p, kind) ==
  op[p].kind = kind /\ pc[p] = "saving" /\ pc'[p] = "idle" /\ ret'[p].err = "none"
IDSeq(s) == [i \in 1..Len(s) |-> s[i].ID]

\* C11: a successful UpdateTodo(id, c) on a store containing id returns
\* {id, trim(c)} and changes only that record's contents: the persisted
\* sequence keeps its length and its IDs in order, and every other record.
C11_UpdateChangesOnlyItsRecord ==
  [][\A p \in Procs :
       (Succeeds(p, "update") /\ op[p].id \in IDsOf(Persisted)) =>
          /\ ret'[p].todo = Todo(op[p].id, TrimSpace(op[p].contents))
          /\ IDSeq(Persisted') = IDSeq(Persisted)
          /\ \A i \in 1..Len(Persisted) :
               IF Persisted[i].ID = op[p].id
               THEN Persisted'[i] = ret'[p].todo
               ELSE Persisted'[i] = Persisted[i]]_vars

\* s without its records of the given ID, in order
RECURSIVE Without(_, _)
Without(s, id) ==
  IF s = <<>> THEN <<>>
  ELSE IF Head(s).ID = id THEN Without(Tail(s), id)
  ELSE <<Head(s)>> \o Without(Tail(s), id)

\* C12: a successful DeleteTodo(id) on a store containing id persists the
\* previous sequence with the single record id removed: one record fewer,
\* every other record kept with its contents and in its relative order.
C12_DeleteRemovesOnlyItsRecord ==
  [][\A p \in Procs :
       (Succeeds(p, "delete") /\ op[p].id \in IDsOf(Persisted)) =>
          /\ Len(Persisted') = Len(Persisted) - 1
          /\ Persisted' = Without(Persisted, op[p].id)]_vars

\* caller p's loadTodos returns in this step, and not with an os.Open error
Loads(p) == pc[p] = "loading" /\ Steps(p) /\ ret'[p].err # "open"

\* C13: UpdateTodo(id, c) with valid contents and DeleteTodo(id), on a store
\* with no record id, fail with the not-found error, go on to no saveTodos and
\* leave the file as it is.
C13_MissingIDNotFound ==
  [][\A p \in Procs :
       (/\ Loads(p)
        /\ op[p].kind \in {"update", "delete"}
        /\ file.kind # "partial"
        /\ op[p].id \notin IDsOf(Persisted)) =>
          /\ ret'[p].err = "notfound"
          /\ pc'[p] = "idle"
          /\ file' = file]_vars
C13_Witness ==
  \E p, q \in Procs :
    /\ pc[p] = "idle" /\ op[p].kind = "update" /\ ret[p].err = "notfound"
    /\ pc[q] = "idle" /\ op[q].kind = "delete" /\ ret[q].err = "notfound"
    /\ Len(Persisted) >= 1

\* a call is entered in this step, and by no caller other than p
Enters(p) ==
  /\ pc[p] = "idle"
  /\ opsLeft' # opsLeft
  /\ \A q \in Procs \ {p} : <<pc[q], op[q], ret[q]>>' = <<pc[q], op[q], ret[q]>>
\* contents is empty or consists of whitespace only
Blank(contents) == \A i \in 1..Len(contents) : contents[i] = " "

\* C14: CreateTodo and UpdateTodo with empty or whitespace-only contents fail
\* with the validation error before any load or save: the call takes no lock,
\* stages no record (no ID is allocated) and leaves the file as it is.
C14_BlankContentsRejected ==
  [][\A p \in Procs :
       (/\ Enters(p)
        /\ op'[p].kind \in {"create", "update"}
        /\ Blank(op'[p].contents)) =>
          /\ pc'[p] = "idle"
          /\ ret'[p] = Ret("validation", NoTodo, <<>>)
          /\ todos'[p] = <<>>
          /\ <<file, readers, writer>>' = <<file, readers, writer>>]_vars
C14_Witness ==
  \E p, q \in Procs :
    /\ pc[p] = "idle" /\ op[p].kind = "create" /\ ret[p].err = "validation"
    /\ op[p].contents = <<>> /\ op[q].contents = <<" ">>
    /\ pc[q] = "idle" /\ op[q].kind = "update" /\ ret[q].err = "validation"
    /\ op[q].id \in IDsOf(Persisted)

\* c is not empty and has no whitespace at either end
Trimmed(c) == c # <<>> /\ c[1] # " " /\ c[Len(c)] # " "
\* c is what is left of the request contents r without the whitespace at its ends
IsTrimOf(c, r) ==
  /\ Trimmed(c)
  /\ \E i \in 1..Len(r) :
       /\ i + Len(c) - 1 <= Len(r)
       /\ SubSeq(r, i, i + Len(c) - 1) = c
       /\ \A k \in 1..Len(r) : (k < i \/ k > i + Len(c) - 1) => r[k] = " "

\* C15: from an absent file, after every step of the service every persisted
\* record has contents that are non-empty and trimmed; a CreateTodo or
\* UpdateTodo that succeeds returns the trimmed request contents, and the
\* record it returns is the record of that ID in the file it wrote.
C15_PersistedContentsTrimmed ==
  [][/\ \A i \in 1..Len(Persisted') : Trimmed(Persisted'[i].Contents)
     /\ \A p \in Procs :
          (Succeeds(p, "create") \/ Succeeds(p, "update")) =>
             /\ IsTrimOf(ret'[p].todo.Contents, op[p].contents)
             /\ \E i \in 1..Len(Persisted') : Persisted'[i] = ret'[p].todo
             /\ \A i \in 1..Len(Persisted') :
                  Persisted'[i].ID = ret'[p].todo.ID =>
                     Persisted'[i] = ret'[p].todo]_vars
C15_Witness ==
  \E p, q \in Procs :
    /\ pc[p] = "idle" /\ op[p].kind = "create" /\ ret[p].err = "none"
    /\ op[p].contents = <<" ", "a">>
    /\ pc[q] = "idle" /\ op[q].kind = "update" /\ ret[q].err = "none"
    /\ op[q].contents = <<"<", " ">>
    /\ \E i \in 1..Len(Persisted) : Persisted[i] = ret[q].todo

\* t holds exactly the records of s, each as many times
IsPermutation(s, t) ==
  /\ Len(s) = Len(t)
  /\ \A r \in {s[i] : i \in 1..Len(s)} :
       Cardinality({i \in 1..Len(s) : s[i] = r})
         = Cardinality({i \in 1..Len(t) : t[i] = r})

\* C16: for every well-formed array of records on disk, in any order,
\* loadTodos returns a permutation of those records in ascending order of ID,
\* and the search UpdateTodo and DeleteTodo run on it finds every ID in the file.
C16_LoadSortsAnyOrder ==
  /\ pureOp \in {"load", "find"} =>
       /\ IsPermutation(inS, outS)
       /\ \A i \in 1..(Len(outS) - 1) : outS[i].ID <= outS[i + 1].ID
  /\ (pureOp = "find" /\ inR.ID \in IDsOf(inS)) =>
       /\ outIdx \in 0..(Len(outS) - 1)
       /\ outS[outIdx + 1].ID = inR.ID

\* a file of three records in descending order of ID was loaded and searched
\* for the ID of its first record
C16_Witness ==
  /\ pureOp = "find" /\ Len(inS) = 3
  /\ inS[1].ID > inS[2].ID /\ inS[2].ID > inS[3].ID
  /\ inR.ID = inS[1].ID
  /\ DecodeTodos(file.data) = inS

\* C17: when the file does not exist loadTodos returns the empty sequence and
\* no error: GetAllTodos returns the empty sequence, UpdateTodo and DeleteTodo
\* fail with not-found, CreateTodo goes on to save the single record with ID 1,
\* and its successful save creates the file; no other call creates it.
C17_AbsentFileIsEmptyStore ==
  [][\A p \in Procs :
       /\ (Loads(p) /\ file.kind = "absent") =>
            /\ op[p].kind = "get" =>
                 pc'[p] = "idle" /\ ret'[p] = Ret("none", NoTodo, <<>>)
            /\ op[p].kind \in {"update", "delete"} =>
                 pc'[p] = "idle" /\ ret'[p].err = "notfound"
            /\ op[p].kind = "create" =>
                 /\ pc'[p] = "save"
                 /\ ret'[p].todo.ID = 1
                 /\ todos'[p] = <<ret'[p].todo>>
            /\ file' = file
       /\ (Succeeds(p, "create") /\ file.kind = "absent") =>
            /\ file'.kind = "json"
            /\ ret'[p].todo.ID = 1
            /\ Persisted' = <<ret'[p].todo>>
       /\ (Steps(p) /\ file.kind = "absent" /\ op'[p].kind # "create") =>
            file' = file]_vars

\* with the file still absent, one caller's UpdateTodo has failed with
\* not-found and the other's CreateTodo is writing its record with ID 1
C17_Witness ==
  \E p, q \in Procs :
    /\ file.kind = "absent"
    /\ pc[p] = "saving" /\ op[p].kind = "create" /\ ret[p].todo.ID = 1
    /\ pc[q] = "idle" /\ op[q].kind = "update" /\ ret[q].err = "notfound"

\* C18: when the file holds a payload that does not deserialize, loadTodos
\* returns an error and the call of any of the four operations returns an error
\* from its load step: it goes on to no saveTodos and leaves the file as it is.
C18_UnreadableFileFailsEveryCall ==
  [][\A p \in Procs :
       (pc[p] = "loading" /\ Steps(p) /\ file.kind = "partial") =>
          /\ pc'[p] = "idle"
          /\ ret'[p].err \in {"parse", "open"}
          /\ ret'[p].todo = NoTodo /\ ret'[p].list = <<>>
          /\ file' = file]_vars

\* on an unreadable file a CreateTodo and a DeleteTodo have returned the
\* Decode error
C18_Witness ==
  \E p, q \in Procs :
    /\ file.kind = "partial"
    /\ pc[p] = "idle" /\ op[p].kind = "create" /\ ret[p].err = "parse"
    /\ pc[q] = "idle" /\ op[q].kind = "delete" /\ ret[q].err = "parse"

\* C19: GetAllTodos returns exactly what loadTodos returns, the list or the
\* error, and no step of the call changes the file or leads to saveTodos.
C19_GetAllReadsOnly ==
  [][\A p \in Procs :
       (Steps(p) /\ op'[p].kind = "get") =>
          /\ file' = file
          /\ pc'[p] \notin {"save", "saving"}
          /\ pc[p] = "loading" =>
               /\ pc'[p] = "idle"
               /\ \/ /\ ret'[p].err = "none"
                     /\ LoadOk(ret'[p].list) \in loadTodos(file)
                  \/ /\ ret'[p].err = "parse"
                     /\ LoadErr \in loadTodos(file)
                  \/ ret'[p].err = "open"]_vars

\* a GetAllTodos has returned the two records in the file
C19_Witness ==
  \E p \in Procs :
    /\ pc[p] = "idle" /\ op[p].kind = "get" /\ ret[p].err = "none"
    /\ Len(ret[p].list) = 2 /\ ret[p].list = Persisted

\* the callers inside the locked section of saveTodos, and of loadTodos
InSave == {p \in Procs : pc[p] = "saving"}
InLoad == {p \in Procs : pc[p] = "loading"}

\* C20: at most one saveTodos is inside its locked section at a time, and
\* while one is, no loadTodos is inside its own: no load reads the file while
\* a save writes it.  The lock is held by exactly the callers inside.
C20_SaveExcludesLoadAndSave ==
  /\ Cardinality(InSave) <= 1
  /\ InSave # {} => InLoad = {}
  /\ readers = InLoad
  /\ InSave = {writer} \ {NoProc}

\* several loadTodos are inside their locked sections at the same time, on
\* a file that exists
C20_Witness ==
  /\ Cardinality(InLoad) = 2
  /\ file.kind = "json"

\* C21: a saveTodos that fails inside CreateTodo, UpdateTodo or DeleteTodo
\* makes the call return the save error and no record, with no second
\* saveTodos; a call returns success only when the file holds what it saved.
C21_FailedSaveReturnsError ==
  [][\A p \in Procs :
       (pc[p] = "saving" /\ Steps(p)) =>
          /\ pc'[p] = "idle"
          /\ opsLeft' = opsLeft
          /\ \/ /\ ret'[p].err = "none"
                /\ file' = saveTodos(todos[p])
             \/ /\ ret'[p] = Ret("save", NoTodo, <<>>)
                /\ file' \in {file, PartialFile}]_vars

\* one caller's CreateTodo and the other's DeleteTodo have returned the save
\* error, on a file that an earlier save wrote
C21_Witness ==
  \E p, q \in Procs :
    /\ pc[p] = "idle" /\ op[p].kind = "create" /\ ret[p].err = "save"
    /\ pc[q] = "idle" /\ op[q].kind = "delete" /\ ret[q].err = "save"
    /\ file.kind = "json"

\* the file changes only in a step that ends some caller's saveTodos
FileChangedOnlyBySave ==
  [][file' # file => \E p \in Procs : pc[p] = "saving" /\ Steps(p)]_vars

\* C22: the file is changed only by saveTodos and always holds one complete
\* sequence, the one before a save or the one the save was given: a
\* saveTodos that fails leaves the file as it was, never truncated or
\* partially written.
C22_FileAlwaysComplete ==
  [][/\ file' # file => \E p \in Procs : pc[p] = "saving" /\ Steps(p)
     /\ file'.kind # "partial"
     /\ \A p \in Procs :
          (pc[p] = "saving" /\ Steps(p)) =>
             \/ file' = saveTodos(todos[p])
             \/ file' = file /\ ret'[p].err = "save"]_vars

(***************************************************************************)
(* The HTTP handlers over the service.                                     *)
(***************************************************************************)
\* the status code the handler of an operation answers with, for what the
\* service call returned (err), or for a request the handler rejects before
\* calling the service ("badid": the ID is no integer, "badjson": the body
\* is no JSON)
HandlerStatus(kind, err) ==
  CASE kind = "get" ->
         IF err = "none" THEN 200 ELSE 500
    [] kind = "create" ->
         IF err = "none" THEN 201 ELSE 400
    [] kind = "update" ->
         IF err = "none" THEN 200
         ELSE IF err = "notfound" THEN 404
         ELSE 400
    [] kind = "delete" ->
         IF err = "none" THEN 200
         ELSE IF err = "badid" THEN 400
         ELSE IF err = "notfound" THEN 404
         ELSE 500

\* C23: each handler's status code follows the kind of outcome: 400 only for
\* a bad request format or a validation error, 404 only for an ID that does
\* not exist, and 500 whenever the service fails to load or save the file.
C23_StatusFollowsOutcome ==
  \A p \in Procs :
    (pc[p] = "idle" /\ op[p].kind # "none" /\ ret[p].err # "pending") =>
       LET status == HandlerStatus(op[p].kind, ret[p].err)
       IN /\ status = 400 => ret[p].err \in {"validation", "badid", "badjson"}
          /\ status = 404 => ret[p].err = "notfound"
          /\ ret[p].err \in {"open", "parse", "save"} => status = 500

\* C24: on /read, /readlines and /saferead a GET request whose file
\* parameter still has a ".." component after cleaning is answered 400 and
\* the reader is not called for it.
C24_TraversalRejected ==
  (/\ http.endpoint \in {"/read", "/readlines", "/saferead"}
   /\ \E i \in 1..Len(Clean(http.file).comps) :
        Clean(http.file).comps[i] = "..") =>
     /\ http.status = 400
     /\ http.read = NoPath

\* C25: two CreateTodo calls that overlap in time and both return success
\* return distinct IDs: a create that succeeds does not return an ID that a
\* create of another caller returned while this call was in progress.
C25_OverlappingCreatesDistinctIDs ==
  [][\A p \in Procs :
       Succeeds(p, "create") => ret'[p].todo.ID \notin during[p].created]_vars

\* C26: once DeleteTodo(id) has returned success, a call that was in progress
\* during the delete does not write the deleted record back: the file a call
\* writes holds no ID that was deleted during the call, unless a CreateTodo
\* begun after that delete has assigned the ID anew.
C26_DeletedNotWrittenBack ==
  [][\A p \in Procs :
       (pc[p] = "saving" /\ Steps(p) /\ file'.kind = "json") =>
          IDsOf(Persisted') \cap during[p].deleted = {}]_vars

\* a caller holds the mutex only inside loadTodos (for reading) or inside
\* saveTodos (for writing), never while it requests it
LockHeldOnlyInside ==
  \A p \in Procs :
    /\ p \in readers => pc[p] = "loading"
    /\ writer = p => pc[p] = "saving"

\* C27: no operation requests the mutex while holding it, and under fair
\* scheduling with terminating file I/O every call that was entered returns.
C27_EveryCallReturns ==
  /\ []LockHeldOnlyInside
  /\ \A p \in Procs : (pc[p] # "idle") ~> (pc[p] = "idle")

\* one caller waits for the write lock while the other is inside loadTodos
C27_Witness ==
  \E p, q \in Procs :
    /\ pc[p] = "save" /\ pc[q] = "loading" /\ q \in readers
    /\ file.kind = "json"

\* C28: in CreateTodo the ID getNextID returns is greater than every ID in
\* the loaded sequence, so insertTodoSorted puts the new record at the last
\* position: what CreateTodo saves is the loaded sequence, then the new record.
C28_CreateAppends ==
  pureOp = "create" =>
     LET n == Len(outS)
     IN /\ n = Len(inS) + 1
        /\ outIdx = n - 1
        /\ outS[n].Contents = inR.Contents
        /\ \A i \in 1..(n - 1) : outS[i].ID < outS[n].ID
        /\ IsPermutation(inS, SubSeq(outS, 1, n - 1))
        /\ \A i \in 1..(n - 2) : outS[i].ID <= outS[i + 1].ID

\* a new record was put after three loaded records whose IDs leave a gap
\* below the maximum
C28_Witness ==
  /\ pureOp = "create" /\ Len(outS) = 4
  /\ outS[1].ID = 0 /\ outS[2].ID = 2 /\ outS[3].ID = 3 /\ outS[4].ID = 4

\* C29: on a strictly ascending sequence, for every target ID,
\* binarySearchTodoByID returns the index linearSearchTodoByID returns, and
\* the binary-search UpdateTodo and DeleteTodo return the same result and
\* persist the same sequence as the linear-scan versions.
C29_BinaryEqualsLinear ==
  StrictlyAscending(inS) =>
     /\ pureOp = "searches" => outIdx = outOld.idx
     /\ pureOp \in {"update", "delete"} =>
          /\ (outIdx = -1) <=> (outOld.err = "notfound")
          /\ DecodeTodos(EncodeTodos(outS)) = PersistedBy(outOld)
     /\ (pureOp = "update" /\ outIdx # -1) =>
          /\ outOld.err = "none"
          /\ outOld.idx = outIdx
          /\ outOld.todo = outS[outIdx + 1]

\* the second of three records was updated by both versions
C29_Witness ==
  /\ pureOp = "update" /\ StrictlyAscending(inS) /\ Len(inS) = 3
  /\ outIdx = 1 /\ outOld.idx = 1 /\ outOld.todo.Contents # inS[2].Contents

\* C30: the search loops of binarySearchTodoByID and insertTodoSorted
\* terminate on every input sequence, sorted or not, the empty one included:
\* each iteration reads an index within [0, len-1] and either returns or
\* strictly shrinks the interval between left and right.
C30_SearchLoopsTerminate ==
  /\ [][(loop.fn # "none" /\ ~loop.done /\ loop' # loop) =>
          \/ loop'.done /\ loop'.mid = loop.mid
          \/ /\ loop'.mid \in 0..(Len(inS) - 1)
             /\ \/ loop'.done
                \/ loop'.right - loop'.left < loop.right - loop.left]_vars
  /\ (loop.fn # "none") ~> loop.done

\* the search has run two iterations on an unsorted sequence of three
\* records and goes on
C30_Witness ==
  /\ loop.fn = "search" /\ ~loop.done /\ loop.left = 2 /\ loop.right = 2
  /\ Len(inS) = 3 /\ inS[1].ID > inS[2].ID

====
